---------------------------- MODULE Spec2Model ----------------------------
(***************************************************************************)
(* A model of the cccedict line parser (src/src/cedict_entry.rs) and of    *)
(* the dictionary loader built on it (src/src/cedict.rs).                  *)
(*                                                                         *)
(* A &str is a sequence of one-character strings.  A nom IResult is a      *)
(* record [ok, rest, out]: ok = FALSE is nom::Err::Error, and then rest    *)
(* and out carry nothing.  An Option is a sequence of length at most one:  *)
(* None is << >> and Some(v) is << v >>.                                   *)
(***************************************************************************)
EXTENDS Naturals, Sequences, FiniteSets

(***************************************************************************)
(* Character classes of the nom primitives and of str::trim.               *)
(***************************************************************************)
\* character::complete::alpha1 accepts these (two lower-case ASCII letters
\* stand for a-z, A-Z)
Alpha == {"a", "b"}
\* character::complete::digit0 accepts these
Digit == {"1", "2"}
\* character::complete::space0 / space1 accept these
Blank == {" ", "\t"}
\* str::trim removes these from both ends
WhiteSpace == {" ", "\t", "\n", "\r"}

None == << >>
Some(v) == << v >>

Drop(i, n) == SubSeq(i, n + 1, Len(i))
Take(i, n) == SubSeq(i, 1, n)

\* The length of the longest prefix of i whose characters are all in S.
SpanIn(i, S) ==
    IF \A k \in 1..Len(i) : i[k] \in S
    THEN Len(i)
    ELSE (CHOOSE k \in 1..Len(i) :
              i[k] \notin S /\ \A j \in 1..(k - 1) : i[j] \in S) - 1

\* The length of the longest prefix of i with no character in S.
SpanNotIn(i, S) ==
    IF \A k \in 1..Len(i) : i[k] \notin S
    THEN Len(i)
    ELSE (CHOOSE k \in 1..Len(i) :
              i[k] \in S /\ \A j \in 1..(k - 1) : i[j] \notin S) - 1

Ok(rest, out) == [ok |-> TRUE, rest |-> rest, out |-> out]
Error == [ok |-> FALSE, rest |-> << >>, out |-> << >>]

\* bytes::complete::tag(c) for a one-character tag
tag(c, i) ==
    IF Len(i) >= 1 /\ i[1] = c THEN Ok(Drop(i, 1), <<c>>) ELSE Error

\* bytes::complete::is_not(S): the longest non-empty run of characters not in S
is_not(S, i) ==
    LET n == SpanNotIn(i, S)
    IN  IF n = 0 THEN Error ELSE Ok(Drop(i, n), Take(i, n))

\* character::complete::space0
space0(i) == LET n == SpanIn(i, Blank) IN Ok(Drop(i, n), Take(i, n))

\* space1 taken for space0: a separator may be empty
space1_optional(i) == LET n == SpanIn(i, Blank) IN Ok(Drop(i, n), Take(i, n))

\* character::complete::space1
space1(i) ==
    LET n == SpanIn(i, Blank)
    IN  IF n = 0 THEN Error ELSE Ok(Drop(i, n), Take(i, n))

\* character::complete::alpha1
alpha1(i) ==
    LET n == SpanIn(i, Alpha)
    IN  IF n = 0 THEN Error ELSE Ok(Drop(i, n), Take(i, n))

\* digit0 taken for digit1: a tone is required
digit0_required(i) ==
    LET n == SpanIn(i, Digit)
    IN  IF n = 0 THEN Error ELSE Ok(Drop(i, n), Take(i, n))

\* character::complete::digit0
digit0(i) == LET n == SpanIn(i, Digit) IN Ok(Drop(i, n), Take(i, n))

\* character::complete::not_line_ending: everything up to the first "\n" or
\* "\r\n"; a "\r" that no "\n" follows is an error.
not_line_ending(i) ==
    LET n == SpanNotIn(i, {"\n", "\r"})
    IN  IF n = Len(i) THEN Ok(<< >>, i)
        ELSE IF i[n + 1] = "\r" /\ ~(n + 2 <= Len(i) /\ i[n + 2] = "\n")
             THEN Error
             ELSE Ok(Drop(i, n), Take(i, n))

\* Syllable::new
NewSyllable(pronunciation, tone) ==
    [pronunciation |-> pronunciation, tone |-> tone]

\* parsers::not_whitespace
not_whitespace(i) == is_not({" ", "\t"}, i)

\* parsers::comment
comment(i) ==
    LET h == tag("#", i)
    IN  IF ~h.ok THEN Error
        ELSE LET t == not_line_ending(h.rest)
             IN  IF ~t.ok THEN Error ELSE Ok(t.rest, <<"#", t.out>>)

\* syllable without its leading space0
syllable_no_space(i) ==
    LET p == alpha1(i)
    IN  IF ~p.ok THEN Error
        ELSE LET t == digit0(p.rest)
             IN  IF ~t.ok THEN Error
                 ELSE Ok(t.rest, NewSyllable(p.out, t.out))

\* parsers::syllable: tuple((space0, alpha1, digit0))
syllable(i) ==
    LET s == space0(i)
    IN  IF ~s.ok THEN Error
        ELSE LET p == alpha1(s.rest)
             IN  IF ~p.ok THEN Error
                 ELSE LET t == digit0(p.rest)
                      IN  IF ~t.ok THEN Error
                          ELSE Ok(t.rest, NewSyllable(p.out, t.out))

\* parsers::syllables: multi::many0(syllable) stops, without failing, at the
\* first position where syllable fails
RECURSIVE many0_syllable(_, _)
many0_syllable(i, acc) ==
    LET r == syllable(i)
    IN  IF ~r.ok THEN Ok(i, acc)
        ELSE many0_syllable(r.rest, Append(acc, r.out))

syllables(i) == many0_syllable(i, << >>)

\* pinyin with a mandatory interior, as parsers::jyutping has it
pinyin_strict(i) ==
    LET open == tag("[", i)
    IN  IF ~open.ok THEN Error
        ELSE LET inner == is_not({"]"}, open.rest)
             IN  IF ~inner.ok THEN Error
                 ELSE LET close == tag("]", inner.rest)
                      IN  IF ~close.ok THEN Error
                          ELSE Ok(close.rest, Some(syllables(inner.out).out))

\* parsers::pinyin
pinyin(i) ==
    LET open == tag("[", i)
    IN  IF ~open.ok THEN Error
        ELSE LET inner == is_not({"]"}, open.rest)
                 pronunciations == IF inner.ok THEN Some(inner.out) ELSE None
                 after == IF inner.ok THEN inner.rest ELSE open.rest
                 close == tag("]", after)
             IN  IF ~close.ok THEN Error
                 ELSE IF pronunciations # None
                      THEN Ok(close.rest, Some(syllables(pronunciations[1]).out))
                      ELSE Ok(close.rest, None)

\* parsers::jyutping
jyutping(i) ==
    LET open == tag("{", i)
    IN  IF ~open.ok THEN Error
        ELSE LET inner == is_not({"}"}, open.rest)
             IN  IF ~inner.ok THEN Error
                 ELSE LET close == tag("}", inner.rest)
                      IN  IF ~close.ok THEN Error
                          ELSE Ok(close.rest, syllables(inner.out).out)

\* str::trim
RECURSIVE trim_start(_)
trim_start(s) ==
    IF Len(s) > 0 /\ s[1] \in WhiteSpace THEN trim_start(Drop(s, 1)) ELSE s

RECURSIVE trim_end(_)
trim_end(s) ==
    IF Len(s) > 0 /\ s[Len(s)] \in WhiteSpace
    THEN trim_end(Take(s, Len(s) - 1))
    ELSE s

\* a trim that removes the leading whitespace only
trim_leading_only(s) == trim_start(s)

trim(s) == trim_end(trim_start(s))

\* str::rfind('/'): the index of the last "/", 0 standing for None
rfind_slash(i) ==
    IF \A k \in 1..Len(i) : i[k] # "/" THEN 0
    ELSE CHOOSE k \in 1..Len(i) :
             i[k] = "/" /\ \A j \in (k + 1)..Len(i) : i[j] # "/"

\* multi::separated_list0(tag("/"), is_not("/")): after the first element,
\* each further element needs a separator and a non-empty run; when either
\* is missing the list ends before that separator.
RECURSIVE separated_more(_, _)
separated_more(i, acc) ==
    LET sep == tag("/", i)
    IN  IF ~sep.ok THEN Ok(i, acc)
        ELSE LET el == is_not({"/"}, sep.rest)
             IN  IF ~el.ok THEN Ok(i, acc)
                 ELSE separated_more(el.rest, Append(acc, el.out))

separated_list0(i) ==
    LET el == is_not({"/"}, i)
    IN  IF ~el.ok THEN Ok(i, << >>)
        ELSE separated_more(el.rest, <<el.out>>)

\* definitions that leaves its elements untrimmed
definitions_untrimmed(i) ==
    LET last_slash == rfind_slash(i)
    IN  IF last_slash # 0
        THEN LET defs == Take(i, last_slash)
                 rest == Drop(i, last_slash)
                 open == tag("/", defs)
             IN  IF ~open.ok THEN Error
                 ELSE LET untrimmed_defs == separated_list0(open.rest)
                          close == tag("/", untrimmed_defs.rest)
                      IN  IF ~close.ok THEN Error
                          ELSE IF untrimmed_defs.out = << >>
                               THEN Ok(rest, None)
                               ELSE Ok(rest, Some(untrimmed_defs.out))
        ELSE Ok(i, None)

\* definitions without the is_empty test on the parsed list
definitions_keep_empty(i) ==
    LET last_slash == rfind_slash(i)
    IN  IF last_slash # 0
        THEN LET defs == Take(i, last_slash)
                 rest == Drop(i, last_slash)
                 open == tag("/", defs)
             IN  IF ~open.ok THEN Error
                 ELSE LET untrimmed_defs == separated_list0(open.rest)
                          close == tag("/", untrimmed_defs.rest)
                      IN  IF ~close.ok THEN Error
                          ELSE Ok(rest,
                                  Some([k \in 1..Len(untrimmed_defs.out) |->
                                           trim(untrimmed_defs.out[k])]))
        ELSE Ok(i, None)

\* parsers::definitions
definitions(i) ==
    LET last_slash == rfind_slash(i)
    IN  IF last_slash # 0
        THEN LET defs == Take(i, last_slash)
                 rest == Drop(i, last_slash)
                 open == tag("/", defs)
             IN  IF ~open.ok THEN Error
                 ELSE LET untrimmed_defs == separated_list0(open.rest)
                          close == tag("/", untrimmed_defs.rest)
                      IN  IF ~close.ok THEN Error
                          ELSE IF untrimmed_defs.out = << >>
                               THEN Ok(rest, None)
                               ELSE Ok(rest,
                                       Some([k \in 1..Len(untrimmed_defs.out) |->
                                                trim(untrimmed_defs.out[k])]))
        ELSE Ok(i, None)

\* combinator::opt(f)(i), r being f(i): an Error becomes None at i
opt(r, i) == IF r.ok THEN Ok(r.rest, Some(r.out)) ELSE Ok(i, None)

\* all_consuming left out: input left over is let through
all_consuming_lax(r) == r

\* combinator::all_consuming(f)(i), r being f(i): input left over is an Error
all_consuming(r) == IF r.ok /\ r.rest = << >> THEN r ELSE Error

\* parsers::cedict_entry.  Try is the ? operator: an Err returns at once, an
\* Ok goes on with its (rest, out).
cedict_entry(i) ==
    LET Try(r, K(_)) == IF r.ok THEN K(r) ELSE Error
    IN  Try(not_whitespace(i), LAMBDA traditional :
        Try(space1(traditional.rest), LAMBDA sp1 :
        Try(not_whitespace(sp1.rest), LAMBDA simplified :
        Try(space1(simplified.rest), LAMBDA sp2 :
        Try(pinyin(sp2.rest), LAMBDA py :
        Try(space1(py.rest), LAMBDA sp3 :
        Try(opt(jyutping(sp3.rest), sp3.rest), LAMBDA jp :
        Try(space0(jp.rest), LAMBDA sp4 :
        Try(definitions(sp4.rest), LAMBDA defs :
            Ok(defs.rest,
               [traditional |-> traditional.out,
                simplified  |-> simplified.out,
                pinyin      |-> py.out,
                jyutping    |-> jp.out,
                definitions |-> defs.out]))))))))))

\* parsers::parse_line: out is the Option<CedictEntry>; ok = FALSE is Err.
\* opt and space0 never fail, so no ? returns early.
parse_line(i) ==
    all_consuming(
        LET entry == opt(cedict_entry(i), i)
            sp == space0(entry.rest)
            c == opt(comment(sp.rest), sp.rest)
        IN  Ok(c.rest, entry.out))

\* CedictEntryError's Display text (src/src/errors.rs)
CedictEntryErrorMsg == "invalid cedict entry input"

\* str::lines: the pieces between "\n" characters, a final empty piece
\* dropped, one trailing "\r" removed from each piece.
strip_cr(l) ==
    IF Len(l) > 0 /\ l[Len(l)] = "\r" THEN Take(l, Len(l) - 1) ELSE l

RECURSIVE lines(_)
lines(s) ==
    IF s = << >> THEN << >>
    ELSE LET n == SpanNotIn(s, {"\n"})
         IN  <<strip_cr(Take(s, n))>> \o lines(Drop(s, n + 1))

(***************************************************************************)
(* Input lines.  A line is written from the pieces of the CC-CEDICT layout *)
(*     t s1 s s2 [py] s3 {jp} s4 /d1/../dn/ tail                           *)
(* each of which may be empty or absent, so that malformed lines, blank    *)
(* lines and comment lines are written from the same record.               *)
(***************************************************************************)
\* the most syllables written in one pronunciation block
MaxSyl == 2
\* the most definitions written in one line
MaxDefs == 2
\* the longest run of blanks written between two fields
MaxBlank == 2
\* the most lines of a dictionary text
MaxLines == 3

RECURSIVE Flat(_)
Flat(ss) == IF ss = << >> THEN << >> ELSE Head(ss) \o Flat(Tail(ss))

\* a written syllable: its letters then its digits
Written(y) == y.pronunciation \o y.tone

\* the interior of a block: the syllables with a gap before, between and
\* after them
Interior(b) ==
    Flat([k \in 1..(2 * Len(b.syls) + 1) |->
             IF k % 2 = 1 THEN b.gaps[(k + 1) \div 2]
             ELSE Written(b.syls[k \div 2])])

BlockText(open, close, b) ==
    IF b = None THEN << >> ELSE <<open>> \o Interior(b[1]) \o <<close>>

DefsText(ds) ==
    IF ds = None THEN << >>
    ELSE <<"/">> \o Flat([k \in 1..Len(ds[1]) |-> ds[1][k] \o <<"/">>])

\* the line without its tail
Body(sh) ==
    sh.t \o sh.s1 \o sh.s \o sh.s2 \o BlockText("[", "]", sh.py) \o sh.s3
        \o BlockText("{", "}", sh.jp) \o sh.s4 \o DefsText(sh.ds)

Render(sh) == Body(sh) \o sh.tail

\* the dictionary text: every line ended by "\n"
TextOf(shs) == Flat([k \in 1..Len(shs) |-> Render(shs[k]) \o <<"\n">>])

SeqsUpTo(S, n) == UNION {[1..m -> S] : m \in 0..n}

\* runs of blanks of length 0..MaxBlank
BlankRun(n) == [k \in 1..n |-> IF k % 2 = 1 THEN " " ELSE "\t"]
Seps == {BlankRun(n) : n \in 0..MaxBlank}

\* head words: none, a hanzi, a latin word, a word starting with "#"
Toks == {<< >>, <<"x">>, <<"h", "i">>, <<"#">>}

\* written syllables: well-formed ones, one without tone, one without
\* letters, one of a character that is neither letter, digit nor blank
WrittenSyls ==
    {NewSyllable(<<"a">>, <<"1">>), NewSyllable(<<"b", "a">>, <<"1", "2">>),
     NewSyllable(<<"a">>, << >>), NewSyllable(<< >>, <<"2">>),
     NewSyllable(<<"!">>, << >>)}

Gaps == {<< >>, <<" ">>}

Blocks ==
    UNION {{[syls |-> y, gaps |-> g] :
               y \in [1..m -> WrittenSyls], g \in [1..(m + 1) -> Gaps]} :
           m \in 0..MaxSyl}

Block(syls) == [syls |-> syls, gaps |-> [k \in 1..(Len(syls) + 1) |-> <<" ">>]]
EmptyBlock == [syls |-> << >>, gaps |-> <<<< >>>>]
A1 == NewSyllable(<<"a">>, <<"1">>)
BA12 == NewSyllable(<<"b", "a">>, <<"1", "2">>)

\* raw definitions between two slashes
DefStrs == {<< >>, <<"d">>, <<" ", "d", " ", "e", "\t">>, <<" ">>}

\* definitions written with two adjacent slashes between them: /d//e/
Doubled == << <<"d">>, << >>, <<"e">> >>

\* what follows the last slash of the definitions
Tails ==
    {<< >>, <<" ">>, <<"#", "c">>, <<" ", "\t", "#", " ", "c", "#">>,
     <<"z">>, <<" ", "z", " ", "#", "c">>,
     <<"#", "/">>, <<" ", "#", "c", "/", "d">>}

VARIABLES
    shapes,     \* the lines as written (the pieces each was written from)
    text,       \* cedict_entries: the &str given to Cedict::from_str
    pos,        \* the number of lines the iterator has yielded and finished
    line,       \* the line given to CedictEntry::new
    parsed,     \* the IResult of parsers::parse_line(line)
    made,       \* the Result of CedictEntry::new(line)
    entries,    \* the entries collected so far
    pc          \* "lines", "parse", "new", "collect", "done"

vars == <<shapes, text, pos, line, parsed, made, entries, pc>>

NoResult == [ok |-> FALSE, entry |-> None, msg |-> ""]

Start(shs, txt) ==
    /\ shapes = shs
    /\ text = txt
    /\ pos = 0
    /\ line = << >>
    /\ parsed = Error
    /\ made = NoResult
    /\ entries = << >>
    /\ pc = "lines"

\* the iterator of cedict_entries.lines() yields its next line
NextLine ==
    /\ pc = "lines"
    /\ pos < Len(lines(text))
    /\ line' = lines(text)[pos + 1]
    /\ pc' = "parse"
    /\ UNCHANGED <<shapes, text, pos, parsed, made, entries>>

\* CedictEntry::new calls parsers::parse_line(input)
ParseLine ==
    /\ pc = "parse"
    /\ parsed' = parse_line(line)
    /\ pc' = "new"
    /\ UNCHANGED <<shapes, text, pos, line, made, entries>>

\* parse_line(input).unwrap_or(("", None))
unwrap_or_none(r) == IF r.ok THEN r.out ELSE None

\* CedictEntry::new, arm (_, Some(entry)) => Ok(entry)
NewOk ==
    /\ pc = "new"
    /\ unwrap_or_none(parsed) # None
    /\ made' = [ok |-> TRUE, entry |-> unwrap_or_none(parsed), msg |-> ""]
    /\ pc' = "collect"
    /\ UNCHANGED <<shapes, text, pos, line, parsed, entries>>

\* an Err arm that tells a line without entry from a line that fails
NewErr_Distinguishing ==
    /\ pc = "new"
    /\ unwrap_or_none(parsed) = None
    /\ made' = [ok |-> FALSE, entry |-> None,
                msg |-> IF parsed.ok THEN "no cedict entry"
                        ELSE CedictEntryErrorMsg]
    /\ pc' = "collect"
    /\ UNCHANGED <<shapes, text, pos, line, parsed, entries>>

\* CedictEntry::new, arm (_, None) => Err(Box::new(CedictEntryError))
NewErr ==
    /\ pc = "new"
    /\ unwrap_or_none(parsed) = None
    /\ made' = [ok |-> FALSE, entry |-> None, msg |-> CedictEntryErrorMsg]
    /\ pc' = "collect"
    /\ UNCHANGED <<shapes, text, pos, line, parsed, entries>>

\* collect that puts each new entry in front of the earlier ones
Collect_InFront ==
    /\ pc = "collect"
    /\ entries' = IF made.ok THEN made.entry \o entries ELSE entries
    /\ pos' = pos + 1
    /\ pc' = "lines"
    /\ UNCHANGED <<shapes, text, line, parsed, made>>

\* filter_map(|line| CedictEntry::new(line).ok()) and collect: an Ok entry is
\* pushed, an Err is dropped
Collect ==
    /\ pc = "collect"
    /\ entries' = IF made.ok THEN entries \o made.entry ELSE entries
    /\ pos' = pos + 1
    /\ pc' = "lines"
    /\ UNCHANGED <<shapes, text, line, parsed, made>>

\* the iterator is exhausted: Ok(Cedict { entries })
Return ==
    /\ pc = "lines"
    /\ pos = Len(lines(text))
    /\ pc' = "done"
    /\ UNCHANGED <<shapes, text, pos, line, parsed, made, entries>>

Next == NextLine \/ ParseLine \/ NewOk \/ NewErr \/ Collect \/ Return

\* one line whose head (head words, separators, blocks) varies
HeadShapes ==
    [t : Toks, s1 : Seps, s : Toks, s2 : Seps,
     py : {None, Some(EmptyBlock), Some(Block(<<A1>>))},
     s3 : Seps, jp : {None, Some(Block(<<BA12>>))}, s4 : {<<" ">>},
     ds : {None, Some(<<<<"d">>>>)}, tail : {<< >>, <<" ", "#", "c">>}]

\* one line whose definitions and tail vary
TailShapes ==
    [t : {<<"x">>}, s1 : {<<" ">>}, s : {<<"y">>}, s2 : {<<"\t">>},
     py : {Some(Block(<<A1>>)), Some(Block(<<A1, BA12>>))},
     s3 : {<<" ">>}, jp : {None, Some(Block(<<BA12>>))}, s4 : {<< >>, <<" ">>},
     ds : {None, Some(Doubled)} \cup {Some(d) : d \in SeqsUpTo(DefStrs, MaxDefs)},
     tail : Tails]

\* one line whose pinyin or jyutping block varies
PronShapes ==
    [t : {<<"x">>}, s1 : {<<" ">>}, s : {<<"y">>}, s2 : {<<" ">>},
     py : {Some(b) : b \in Blocks},
     s3 : {<<" ">>}, jp : {None, Some(Block(<<BA12>>))}, s4 : {<<" ">>},
     ds : {Some(<<<<"d">>>>)}, tail : {<< >>}]
    \cup
    [t : {<<"x">>}, s1 : {<<" ">>}, s : {<<"y">>}, s2 : {<<" ">>},
     py : {Some(Block(<<A1>>))},
     s3 : {<<" ">>}, jp : {Some(b) : b \in Blocks}, s4 : {<<" ">>},
     ds : {Some(<<<<"d">>>>)}, tail : {<< >>}]

\* a line of the dictionary texts: its pieces default to a valid entry
Valid1 ==
    [t |-> <<"x">>, s1 |-> <<" ">>, s |-> <<"y">>, s2 |-> <<" ">>,
     py |-> Some(Block(<<A1>>)), s3 |-> <<" ">>, jp |-> None, s4 |-> << >>,
     ds |-> Some(<<<<"d">>>>), tail |-> << >>]
Valid2 ==
    [Valid1 EXCEPT !.t = <<"h", "i">>, !.jp = Some(Block(<<BA12>>)),
                   !.s4 = <<" ">>, !.tail = <<" ", "#", "c">>]
BlankLine ==
    [t |-> << >>, s1 |-> <<" ">>, s |-> << >>, s2 |-> << >>, py |-> None,
     s3 |-> << >>, jp |-> None, s4 |-> << >>, ds |-> None, tail |-> << >>]
EmptyLine == [BlankLine EXCEPT !.s1 = << >>]
CommentLine == [BlankLine EXCEPT !.t = <<"#">>, !.s = <<"c">>]
HeadWordOnly == [EmptyLine EXCEPT !.t = <<"h", "i">>]
HashEntry == [Valid1 EXCEPT !.t = <<"#">>]

DictLines ==
    {Valid1, Valid2, EmptyLine, CommentLine, HeadWordOnly, HashEntry}

\* a text with its last line ended by "\n" or not
Texts(shs) ==
    {TextOf(shs)} \cup
    (IF shs = << >> THEN {} ELSE {Take(TextOf(shs), Len(TextOf(shs)) - 1)})

InitHead == \E sh \in HeadShapes : Start(<<sh>>, TextOf(<<sh>>))
InitTail == \E sh \in TailShapes : Start(<<sh>>, TextOf(<<sh>>))
InitPron == \E sh \in PronShapes : Start(<<sh>>, TextOf(<<sh>>))
InitDict ==
    \E shs \in SeqsUpTo(DictLines, MaxLines) :
        \E txt \in Texts(shs) : Start(shs, txt)

Init == InitHead \/ InitTail \/ InitPron \/ InitDict

Spec == Init /\ [][Next]_vars

(***************************************************************************)
(* The line at hand and how it was written.                                *)
(***************************************************************************)
\* the pieces the line at hand was written from (pc is "parse", "new" or
\* "collect")
Sh == shapes[pos + 1]

\* parse_line has returned for the line at hand
AtParsed == pc = "new"
\* CedictEntry::new has returned for the line at hand
AtMade == pc = "collect"

NoBlank(w) == \A k \in 1..Len(w) : w[k] \notin Blank
NoSlash(w) == \A k \in 1..Len(w) : w[k] # "/"
AllBlank(w) == \A k \in 1..Len(w) : w[k] \in Blank

\* a full-line comment: "#" and the remainder of the line
IsCommentLine(l) == Len(l) > 0 /\ l[1] = "#"

\* a syllable written as one or more letters followed by one or more digits
TonedSyl(y) ==
    /\ Len(y.pronunciation) > 0
    /\ \A k \in 1..Len(y.pronunciation) : y.pronunciation[k] \in Alpha
    /\ Len(y.tone) > 0
    /\ \A k \in 1..Len(y.tone) : y.tone[k] \in Digit

\* a block written as a non-empty list of such syllables
TonedBlock(b) ==
    /\ b # None
    /\ Len(b[1].syls) > 0
    /\ \A k \in 1..Len(b[1].syls) : TonedSyl(b[1].syls[k])

\* the head of the line is T S [..] with its three separators
GoodHead(sh) ==
    /\ sh.t # << >> /\ NoBlank(sh.t)
    /\ sh.s # << >> /\ NoBlank(sh.s)
    /\ sh.s1 # << >> /\ sh.s2 # << >> /\ sh.s3 # << >>
    /\ sh.py # None

\* n >= 1 definitions, none containing "/"
SomeDefs(sh) ==
    /\ sh.ds # None
    /\ Len(sh.ds[1]) >= 1
    /\ \A k \in 1..Len(sh.ds[1]) : NoSlash(sh.ds[1][k])

\* T S [PY] /D1/../Dn/ or T S [PY] {JP} /D1/../Dn/, no comment
WellFormed(sh) ==
    /\ GoodHead(sh)
    /\ ~IsCommentLine(Render(sh))
    /\ TonedBlock(sh.py)
    /\ sh.jp # None => TonedBlock(sh.jp)
    /\ SomeDefs(sh)
    /\ sh.tail = << >>

\* the entry the pieces of a well-formed line stand for
Expected(sh) ==
    [traditional |-> sh.t,
     simplified  |-> sh.s,
     pinyin      |-> Some(sh.py[1].syls),
     jyutping    |-> IF sh.jp = None THEN None ELSE Some(sh.jp[1].syls),
     definitions |-> Some([k \in 1..Len(sh.ds[1]) |-> trim(sh.ds[1][k])])]

Returned(e) ==
    /\ parsed = Ok(<< >>, Some(e))
    /\ made = [ok |-> TRUE, entry |-> Some(e), msg |-> ""]

(***************************************************************************)
(* C1 as stated: every well-formed line T S [PY] /D1/../Dn/ or             *)
(* T S [PY] {JP} /D1/../Dn/ (n >= 1, no Di containing "/", no comment)     *)
(* makes parse_line and CedictEntry::new return the entry with             *)
(* traditional T, simplified S, pinyin Some(PY's syllables), jyutping      *)
(* Some(JP's syllables) or None, definitions Some([trim(D1)..trim(Dn)]).   *)
(* It fails when some Di is the empty string.                              *)
(***************************************************************************)
C1_AsStated == (AtMade /\ WellFormed(Sh)) => Returned(Expected(Sh))

\* every Di is at least one character long
NonEmptyDefs(sh) == \A k \in 1..Len(sh.ds[1]) : sh.ds[1][k] # << >>

(***************************************************************************)
(* C1 amended: the same, for the well-formed lines in which every Di is    *)
(* non-empty.                                                              *)
(***************************************************************************)
C1_WellFormedLine ==
    (AtMade /\ WellFormed(Sh) /\ NonEmptyDefs(Sh)) => Returned(Expected(Sh))

\* a well-formed line with a jyutping block, two run-together or spaced
\* syllables and two definitions, one of them trimmed, has been parsed
C1_Witness ==
    /\ AtMade /\ WellFormed(Sh) /\ NonEmptyDefs(Sh)
    /\ Sh.jp # None
    /\ Len(Sh.py[1].syls) = 2
    /\ Len(Sh.ds[1]) = 2
    /\ \E k \in 1..2 : trim(Sh.ds[1][k]) # Sh.ds[1][k]
    /\ made.ok

\* the tail is optional blanks, "#" and a comment text
IsCommentTail(w) ==
    LET n == SpanIn(w, Blank) IN n < Len(w) /\ w[n + 1] = "#"

(***************************************************************************)
(* C2: for every line L that parses to an entry and every comment text C,  *)
(* L followed by optional blanks, "#" and C parses to exactly the same     *)
(* entry as L.                                                             *)
(***************************************************************************)
C2_CommentIgnored ==
    (/\ AtParsed
     /\ IsCommentTail(Sh.tail)
     /\ parse_line(Body(Sh)).ok
     /\ parse_line(Body(Sh)).out # None)
    => parsed = parse_line(Body(Sh))

\* a blank line: empty, or only spaces and tabs
IsBlankLine(l) == AllBlank(l)

(***************************************************************************)
(* C3: for every blank line and every full-line comment ("#" and the rest  *)
(* of the line) parse_line succeeds with no entry: Ok with None.           *)
(***************************************************************************)
C3_BlankOrComment ==
    (AtParsed /\ (IsBlankLine(line) \/ IsCommentLine(line)))
    => (parsed.ok /\ parsed.out = None)

\* what is written after the pinyin block
AfterPinyin(sh) ==
    sh.s3 \o BlockText("{", "}", sh.jp) \o sh.s4 \o DefsText(sh.ds) \o sh.tail

\* the line lacks a head word or one of the three mandatory separators (the
\* third is lacking when no blank follows the pinyin block)
Lacking(sh) ==
    \/ sh.t = << >> \/ sh.s = << >>
    \/ sh.s1 = << >> \/ sh.s2 = << >>
    \/ AfterPinyin(sh) = << >> \/ AfterPinyin(sh)[1] \notin Blank

(***************************************************************************)
(* C4: every non-comment line that lacks the traditional or the simplified *)
(* token, or a mandatory separator (traditional/simplified, simplified/"[",*)
(* "]"/what follows) is rejected: CedictEntry::new returns Err with the    *)
(* message "invalid cedict entry input" and no entry.                      *)
(***************************************************************************)
C4_Rejected ==
    (AtMade /\ ~IsCommentLine(line) /\ Lacking(Sh))
    => (/\ ~made.ok
        /\ made.entry = None
        /\ made.msg = "invalid cedict entry input")

\* one head word followed directly by a pinyin block and definitions has
\* been rejected
C4_Witness ==
    /\ AtMade /\ ~IsCommentLine(line)
    /\ Sh.t # << >> /\ Sh.s1 # << >> /\ Sh.s = << >> /\ Sh.s2 = << >>
    /\ Sh.py # None /\ Sh.s3 # << >> /\ Sh.ds # None
    /\ ~made.ok /\ made.msg = CedictEntryErrorMsg

\* optional blanks, then nothing or a "#" comment
CleanTail(w) == AllBlank(w) \/ IsCommentTail(w)

(***************************************************************************)
(* C5: parse_line returns an entry only if the whole line is consumed:     *)
(* when the text after the final "/" of the definitions is anything but    *)
(* optional blanks and an optional "#" comment, parse_line fails and no    *)
(* entry is returned.                                                      *)
(***************************************************************************)
C5_Residual ==
    (/\ AtParsed
     /\ ~IsCommentLine(line)
     /\ Sh.ds # None
     /\ NoSlash(Sh.tail)
     /\ ~CleanTail(Sh.tail))
    => (~parsed.ok /\ parsed.out = None)

\* a line that is an entry up to its final "/" and then has residual text
\* has been refused
C5_Witness ==
    /\ AtParsed
    /\ ~IsCommentLine(line)
    /\ Sh.ds # None /\ NoSlash(Sh.tail) /\ ~CleanTail(Sh.tail)
    /\ cedict_entry(line).ok
    /\ ~parsed.ok

\* the lines of the text as they were written
WrittenLines == [k \in 1..Len(shapes) |-> Render(shapes[k])]

\* CedictEntry::new(l) is Ok
NewSucceeds(l) == parse_line(l).ok /\ parse_line(l).out # None

\* the entries of the lines on which CedictEntry::new succeeds, in order
RECURSIVE Successes(_)
Successes(ls) ==
    IF ls = << >> THEN << >>
    ELSE (IF NewSucceeds(Head(ls)) THEN parse_line(Head(ls)).out ELSE << >>)
             \o Successes(Tail(ls))

(***************************************************************************)
(* C6: for every sequence of input lines Cedict::from_str returns Ok and   *)
(* its entries are exactly the entries of the lines on which               *)
(* CedictEntry::new succeeds, in line order, one per such line: their      *)
(* number is the number of successfully parsed lines.                      *)
(***************************************************************************)
C6_Entries ==
    pc = "done" =>
        /\ entries = Successes(WrittenLines)
        /\ Len(entries) =
               Cardinality({k \in 1..Len(shapes) : NewSucceeds(WrittenLines[k])})

\* a text of three lines, an invalid one between two different valid ones,
\* has been loaded
C6_Witness ==
    /\ pc = "done"
    /\ Len(shapes) = 3
    /\ NewSucceeds(WrittenLines[1])
    /\ ~NewSucceeds(WrittenLines[2])
    /\ NewSucceeds(WrittenLines[3])
    /\ Len(entries) = 2
    /\ entries[1] # entries[2]

(***************************************************************************)
(* C7: for every pinyin block whose interior is non-empty, if the line     *)
(* parses then the entry's pinyin is Some of a non-empty syllable          *)
(* sequence, never Some of an empty sequence.                              *)
(***************************************************************************)
C7_NonEmptyPinyin ==
    (/\ AtParsed
     /\ GoodHead(Sh) /\ ~IsCommentLine(line)
     /\ Interior(Sh.py[1]) # << >>
     /\ parsed.ok /\ parsed.out # None)
    => (/\ parsed.out[1].pinyin # None
        /\ parsed.out[1].pinyin[1] # << >>)

\* what follows the pinyin block is written well: a jyutping block of toned
\* syllables or none, n >= 1 non-empty definitions, no residual text
GoodRest(sh) ==
    /\ sh.jp # None => TonedBlock(sh.jp)
    /\ SomeDefs(sh) /\ NonEmptyDefs(sh)
    /\ NoSlash(sh.tail) /\ CleanTail(sh.tail)

(***************************************************************************)
(* C8: a pinyin block with an empty interior, [], is accepted and yields   *)
(* pinyin = None, the rest of the line (a following jyutping block, the    *)
(* definitions) being parsed normally into the entry.                      *)
(***************************************************************************)
C8_EmptyPinyin ==
    (/\ AtMade
     /\ GoodHead(Sh) /\ ~IsCommentLine(line)
     /\ Interior(Sh.py[1]) = << >>
     /\ GoodRest(Sh))
    => Returned([Expected(Sh) EXCEPT !.pinyin = None])

\* a line with [] and a jyutping block has been parsed
C8_Witness ==
    /\ AtMade
    /\ GoodHead(Sh) /\ ~IsCommentLine(line)
    /\ Interior(Sh.py[1]) = << >>
    /\ GoodRest(Sh)
    /\ Sh.jp # None
    /\ made.ok /\ made.entry[1].pinyin = None
    /\ made.entry[1].jyutping = Some(Sh.jp[1].syls)

\* the syllables written run together
RunTogether(syls) == Flat([k \in 1..Len(syls) |-> Written(syls[k])])

\* the block b, of toned syllables, is tokenized to got, as its syllables
\* written run together are
SameAsRunTogether(b, got) ==
    /\ got = b[1].syls
    /\ got = syllables(RunTogether(b[1].syls)).out
    /\ Len(got) = Len(b[1].syls)

(***************************************************************************)
(* C9: for every sequence of syllables, each one or more letters followed  *)
(* by one or more digits, the syllables written run together and the       *)
(* syllables written with any spaces before, between or after them are     *)
(* tokenized to the same sequence of (pronunciation, tone) pairs, one per  *)
(* syllable, in order.                                                     *)
(***************************************************************************)
C9_Spacing ==
    (/\ AtParsed
     /\ GoodHead(Sh) /\ ~IsCommentLine(line)
     /\ TonedBlock(Sh.py)
     /\ GoodRest(Sh))
    => (/\ parsed.ok /\ parsed.out # None
        /\ parsed.out[1].pinyin # None
        /\ SameAsRunTogether(Sh.py, parsed.out[1].pinyin[1])
        /\ Sh.jp # None =>
              (/\ parsed.out[1].jyutping # None
               /\ SameAsRunTogether(Sh.jp, parsed.out[1].jyutping[1])))

\* two syllables written with a space before, between and after them have
\* been tokenized
C9_Witness ==
    /\ AtParsed
    /\ GoodHead(Sh) /\ TonedBlock(Sh.py) /\ GoodRest(Sh)
    /\ Len(Sh.py[1].syls) = 2
    /\ \A k \in 1..3 : Sh.py[1].gaps[k] # << >>
    /\ parsed.ok /\ parsed.out # None
    /\ Len(parsed.out[1].pinyin[1]) = 2

\* letters only, at least one; digits only, possibly none
SyllableOk(y) ==
    /\ Len(y.pronunciation) > 0
    /\ \A k \in 1..Len(y.pronunciation) : y.pronunciation[k] \in Alpha
    /\ \A k \in 1..Len(y.tone) : y.tone[k] \in Digit

SyllablesOk(o) == o # None => \A k \in 1..Len(o[1]) : SyllableOk(o[1][k])

EntryOk(e) == SyllablesOk(e.pinyin) /\ SyllablesOk(e.jyutping)

\* a block written as one syllable of letters without a tone
ToneLess(b) ==
    /\ b # None
    /\ Len(b[1].syls) = 1
    /\ Len(b[1].syls[1].pronunciation) > 0
    /\ \A k \in 1..Len(b[1].syls[1].pronunciation) :
           b[1].syls[1].pronunciation[k] \in Alpha
    /\ b[1].syls[1].tone = << >>

(***************************************************************************)
(* C10: every syllable in the pinyin or jyutping of any entry the parser   *)
(* returns has a non-empty pronunciation of letters only and a tone of     *)
(* digits only, possibly empty; a syllable written without a tone is       *)
(* accepted and tokenized to its letters with the empty tone.              *)
(***************************************************************************)
C10_Syllables ==
    /\ parsed.out # None => EntryOk(parsed.out[1])
    /\ made.entry # None => EntryOk(made.entry[1])
    /\ \A k \in 1..Len(entries) : EntryOk(entries[k])
    /\ (/\ AtParsed
        /\ GoodHead(Sh) /\ ~IsCommentLine(line)
        /\ ToneLess(Sh.py)
        /\ GoodRest(Sh))
       => (/\ parsed.ok /\ parsed.out # None
           /\ parsed.out[1].pinyin =
                  Some(<<NewSyllable(Sh.py[1].syls[1].pronunciation, << >>)>>))

\* an entry whose pinyin is one syllable without a tone has been collected
C10_Witness ==
    /\ pc = "done"
    /\ Len(entries) = 1
    /\ ToneLess(shapes[1].py)
    /\ entries[1].pinyin = Some(<<NewSyllable(<<"a">>, << >>)>>)

\* the definitions of the entry parse_line returned for the line at hand
DefsOut == parsed.out[1].definitions

\* t is raw without the whitespace at its two ends: raw is a run of
\* whitespace, then t unchanged, then a run of whitespace, and t neither
\* starts nor ends with whitespace
Stripped(raw, t) ==
    /\ t # << >> => (t[1] \notin WhiteSpace /\ t[Len(t)] \notin WhiteSpace)
    /\ \E a \in 0..Len(raw) :
           /\ a + Len(t) <= Len(raw)
           /\ \A k \in 1..a : raw[k] \in WhiteSpace
           /\ \A k \in 1..Len(t) : raw[a + k] = t[k]
           /\ \A k \in (a + Len(t) + 1)..Len(raw) : raw[k] \in WhiteSpace

\* the line is written with n >= 1 non-empty segments D1..Dn without "/"
\* and nothing after them brings a further "/"
PlainDefs(sh) == SomeDefs(sh) /\ NonEmptyDefs(sh) /\ NoSlash(sh.tail)

(***************************************************************************)
(* C11: every definition of a returned entry neither starts nor ends with  *)
(* whitespace; and when the line is written with the segments D1..Dn, the  *)
(* entry has n definitions, the k-th being Dk with its leading and         *)
(* trailing whitespace removed and its interior whitespace kept, in the    *)
(* order of the segments in the line.                                      *)
(***************************************************************************)
C11_Trimmed ==
    (AtParsed /\ parsed.ok /\ parsed.out # None)
    => /\ DefsOut # None =>
              \A k \in 1..Len(DefsOut[1]) :
                  LET d == DefsOut[1][k]
                  IN  d # << >> =>
                          (d[1] \notin WhiteSpace /\ d[Len(d)] \notin WhiteSpace)
       /\ (GoodHead(Sh) /\ ~IsCommentLine(line) /\ PlainDefs(Sh)) =>
              /\ DefsOut # None
              /\ Len(DefsOut[1]) = Len(Sh.ds[1])
              /\ \A k \in 1..Len(Sh.ds[1]) : Stripped(Sh.ds[1][k], DefsOut[1][k])

\* an entry has been returned for a line written with two different
\* segments, the first with whitespace at both ends and inside, and its
\* first definition keeps the interior whitespace
C11_Witness ==
    /\ AtParsed /\ parsed.ok /\ parsed.out # None
    /\ GoodHead(Sh) /\ PlainDefs(Sh)
    /\ Sh.ds[1] = << <<" ", "d", " ", "e", "\t">>, <<"d">> >>
    /\ DefsOut = Some(<< <<"d", " ", "e">>, <<"d">> >>)


\* the definitions are written as "//" and no further "/" follows
EmptyDefs(sh) == sh.ds = Some(<< << >> >>) /\ NoSlash(sh.tail)

\* the line has no "/" where its definitions would be
NoDefs(sh) == sh.ds = None /\ NoSlash(sh.tail)

(***************************************************************************)
(* C12: the definitions of a returned entry are never Some of an empty     *)
(* list. They are None when the definitions are written "//" and when the  *)
(* input of the definitions parser has no "/" (the parser then consumes    *)
(* nothing), and Some of a non-empty list when the line is written with    *)
(* n >= 1 non-empty segments.                                              *)
(***************************************************************************)
C12_NeverEmptyList ==
    (AtParsed /\ parsed.ok /\ parsed.out # None)
    => /\ DefsOut # Some(<< >>)
       /\ (GoodHead(Sh) /\ ~IsCommentLine(line)) =>
              /\ EmptyDefs(Sh) => DefsOut = None
              /\ NoDefs(Sh) =>
                     /\ DefsOut = None
                     /\ definitions(Sh.tail) = Ok(Sh.tail, None)
              /\ PlainDefs(Sh) => (DefsOut # None /\ Len(DefsOut[1]) >= 1)

\* an entry without definitions has been returned for a line whose
\* definitions are written "//"
C12_Witness ==
    /\ AtParsed /\ parsed.ok /\ parsed.out # None
    /\ GoodHead(Sh) /\ EmptyDefs(Sh)
    /\ Sh.tail # << >>
    /\ DefsOut = None


\* the definitions are written between slashes, no Di containing "/", and
\* the last "/" of the line is the one that closes them: the substring up
\* to the last "/" that the definitions parser works on is DefsText(sh.ds)
SlashedDefs(sh) ==
    /\ sh.ds # None
    /\ \A k \in 1..Len(sh.ds[1]) : NoSlash(sh.ds[1][k])
    /\ NoSlash(sh.tail)

\* that substring is /d1/../dN/ with N >= 1 and every di non-empty
ListForm(sh) == Len(sh.ds[1]) >= 1 /\ NonEmptyDefs(sh)

(***************************************************************************)
(* C13 as stated: the definitions parser gives Some(list) only when the    *)
(* substring up to and including the last "/" is /d1/../dN/ with every di  *)
(* a non-empty run of non-slash characters, list then being                *)
(* [trim(d1)..trim(dN)]; a substring with two adjacent slashes between     *)
(* definitions never yields a list that omits segments. It fails on        *)
(* /d//e/, for which the entry is returned with the one definition "d".    *)
(***************************************************************************)
C13_ListForm ==
    (/\ AtParsed
     /\ GoodHead(Sh) /\ ~IsCommentLine(line)
     /\ SlashedDefs(Sh)
     /\ parsed.ok /\ parsed.out # None
     /\ DefsOut # None)
    => (/\ ListForm(Sh)
        /\ DefsOut = Some([k \in 1..Len(Sh.ds[1]) |-> trim(Sh.ds[1][k])]))


\* the line is written T S [PY] {} /D1/../Dn/: toned pinyin syllables, a
\* jyutping block with nothing between its braces, n >= 1 non-empty
\* definitions, no residual text
EmptyJyutping(sh) ==
    /\ GoodHead(sh)
    /\ TonedBlock(sh.py)
    /\ sh.jp # None /\ Interior(sh.jp[1]) = << >>
    /\ SomeDefs(sh) /\ NonEmptyDefs(sh)
    /\ NoSlash(sh.tail) /\ CleanTail(sh.tail)

(***************************************************************************)
(* C14 as stated: a line T S [PY] {} /defs/ parses to the entry whose      *)
(* jyutping is Some of the empty syllable sequence, its other fields       *)
(* parsed normally; the empty jyutping block does not make the line fail.  *)
(* It fails: is_not("}") needs at least one character, opt(jyutping)       *)
(* gives None without consuming, and definitions is handed "{} /defs/".    *)
(***************************************************************************)
C14_EmptyJyutping ==
    (AtMade /\ EmptyJyutping(Sh) /\ ~IsCommentLine(line))
    => Returned([Expected(Sh) EXCEPT !.jyutping = Some(<< >>)])


\* w with its spaces removed
RECURSIVE Unspaced(_)
Unspaced(w) ==
    IF w = << >> THEN << >>
    ELSE IF Head(w) = " " THEN Unspaced(Tail(w))
         ELSE <<Head(w)>> \o Unspaced(Tail(w))

\* the block b, whose interior is not empty, is tokenized to got without
\* loss: pronunciation then tone of the syllables of got, in order, spell
\* the interior without its spaces
FullyConsumed(b, got) ==
    (b # None /\ Interior(b[1]) # << >>)
    => (got # None /\ RunTogether(got[1]) = Unspaced(Interior(b[1])))

(***************************************************************************)
(* C15 as stated: for every non-empty pinyin or jyutping interior of a     *)
(* line that parses, the concatenation in order of pronunciation followed  *)
(* by tone over the returned syllables equals the interior with its        *)
(* spaces removed: no text of the interior is dropped. It fails when the   *)
(* interior holds a character that starts no syllable: the syllables       *)
(* before it are returned and what follows is discarded.                   *)
(***************************************************************************)
C15_FullyConsumed ==
    (/\ AtParsed
     /\ GoodHead(Sh)
     /\ parsed.ok /\ parsed.out # None)
    => (/\ FullyConsumed(Sh.py, parsed.out[1].pinyin)
        /\ FullyConsumed(Sh.jp, parsed.out[1].jyutping))


\* what CedictEntry::new is said to return for an outcome r of parse_line
NewOf(r) ==
    IF r.ok /\ r.out # None
    THEN [ok |-> TRUE, entry |-> r.out, msg |-> ""]
    ELSE [ok |-> FALSE, entry |-> None, msg |-> "invalid cedict entry input"]

(***************************************************************************)
(* C16: CedictEntry::new(line) returns Ok(entry) exactly when              *)
(* parse_line(line) succeeds with Some(entry); in every other case it      *)
(* returns Err with the message "invalid cedict entry input", the same     *)
(* for a blank line or a comment line on which parse_line succeeds with    *)
(* None as for a line on which parse_line fails.                           *)
(***************************************************************************)
C16_NewResult ==
    AtMade =>
        /\ parsed = parse_line(line)
        /\ made = NewOf(parsed)
        /\ made.ok <=> (parsed.ok /\ parsed.out # None)
        /\ IsBlankLine(line) => (parsed = Ok(<< >>, None) /\ ~made.ok)

\* CedictEntry::new has returned Err for a comment line on which
\* parse_line succeeded with None
C16_Witness ==
    /\ AtMade
    /\ IsCommentLine(line)
    /\ parsed = Ok(<< >>, None)
    /\ made = [ok |-> FALSE, entry |-> None,
               msg |-> "invalid cedict entry input"]

=============================================================================
